---- MODULE Spec2Model ----
(***************************************************************************)
(* The five MCP tools of baseTools (query_http_events, list_network_lists, *)
(* get_network_list, update_network_list, create_network_list) as a state  *)
(* machine.  Every `await` of an execute routine is a step boundary: a     *)
(* Start action runs the routine up to its first fetch, a Responds action  *)
(* delivers the upstream answer and runs the routine to its next fetch or  *)
(* to its return.  The upstream network list is the shared state.          *)
(***************************************************************************)
EXTENDS Integers, Sequences, FiniteSets, TLC

\* Longest item sequence passed as an argument.
MaxLen == 2

\* Longest item sequence the upstream list holds at the start.
MaxHeld == 2

\* Entries passed as arguments.
Items == {"A", "B", "C"}

\* Entries the upstream list holds at the start.
HeldItems == {"A", "B"}

\* Concurrent invocations.
Procs == {1, 2}

VARIABLES
    env,        \* process.env: AZION_API_TOKEN and AZION_TOKEN
    hasFetch,   \* whether globalThis.fetch is a function
    list,       \* the items of the upstream network list
    pc,         \* per invocation: where its execute routine is
    tool,       \* per invocation: the tool invoked
    args,       \* per invocation: the argument object
    local,      \* per invocation: locals that live across an await
    calls,      \* per invocation: the fetch calls issued, in order
    resps,      \* per invocation: the responses received, in order
    startList,  \* per invocation: the upstream items when it started
    reply       \* per invocation: the text of the ToolResponse returned

vars == <<env, hasFetch, list, pc, tool, args, local, calls, resps, startList, reply>>

-----------------------------------------------------------------------------
(* JavaScript values *)

JUndef == [kind |-> "undefined"]
JNull == [kind |-> "null"]
JStr(s) == [kind |-> "string", str |-> s]
JNum(n) == [kind |-> "number", num |-> n]
JBool(b) == [kind |-> "boolean", bool |-> b]
JArr(es) == [kind |-> "array", elems |-> es]
JObj(fs) == [kind |-> "object", fields |-> fs]

\* The object literal {}.
NoFields == [k \in {} |-> JUndef]

\* ToBoolean.
Truthy(v) ==
    CASE v.kind \in {"undefined", "null"} -> FALSE
      [] v.kind = "string" -> v.str # ""
      [] v.kind = "number" -> v.num # 0
      [] v.kind = "boolean" -> v.bool
      [] OTHER -> TRUE

\* a || b
Or(a, b) == IF Truthy(a) THEN a ELSE b

\* a ?? b
Coalesce(a, b) == IF a.kind \in {"undefined", "null"} THEN b ELSE a

\* Reading a property of null or undefined throws a TypeError.
Readable(v) == v.kind \notin {"undefined", "null"}

\* v.k for a readable v.
Prop(v, k) ==
    IF v.kind = "object" /\ k \in DOMAIN v.fields THEN v.fields[k] ELSE JUndef

\* v[0]
First(v) ==
    IF v.kind = "array" /\ Len(v.elems) > 0 THEN v.elems[1] ELSE JUndef

\* Spreading [...v] throws a TypeError unless v is iterable.
Iterable(v) == v.kind = "array"

StrArr(seq) == JArr([i \in DOMAIN seq |-> JStr(seq[i])])

SeqsUpTo(S, n) == UNION {[1..k -> S] : k \in 0..n}

IsIn(x, seq) == \E i \in DOMAIN seq : seq[i] = x

NoDup(seq) == \A i, j \in DOMAIN seq : seq[i] = seq[j] => i = j

\* [...new Set(seq)]: a Set keeps the first occurrence of each value, in
\* insertion order.
RECURSIVE DedupFrom(_, _)
DedupFrom(seq, acc) ==
    IF seq = <<>> THEN acc
    ELSE DedupFrom(Tail(seq),
                   IF IsIn(Head(seq), acc) THEN acc ELSE Append(acc, Head(seq)))

SetSpread(seq) == DedupFrom(seq, <<>>)

-----------------------------------------------------------------------------
(* Reply texts: a template literal is the sequence of its pieces *)

Lit(s) == [kind |-> "lit", str |-> s]

\* ${v} in a template literal
Str(v) == [kind |-> "tostring", of |-> v]

\* JSON.stringify(v, null, 2)
Json(v) == [kind |-> "json", of |-> v]

\* parsed.error.message: the validator's issues, by path
ZodMessage(issues) == [kind |-> "zod", issues |-> issues]

NoReply == <<>>

Contains(text, piece) == IsIn(piece, text)

MissingTokenText ==
    << Lit("Missing AZION_API_TOKEN"),
       Lit(" (or AZION_TOKEN) in environment. Please create a .env with AZION_API_TOKEN=your_token and ensure your runner loads it.") >>

NoFetchText ==
    << Lit("Fetch API is not available in this runtime. Please run on Node 18+ or provide a fetch polyfill.") >>

InvalidJsonMessage == JStr("Invalid JSON response from Azion API")

HttpStatusText(res) ==
    << Lit("HTTP "), Str(JNum(res.status)), Lit(" "), Str(JStr(res.statusText)) >>

\* json.message || `HTTP ${res.status} ${res.statusText}`
MessageOrStatus(res, json) ==
    IF Truthy(Prop(json, "message")) THEN << Str(Prop(json, "message")) >>
    ELSE HttpStatusText(res)

FailedText(res, json) ==
    << Lit("Azion API request failed: ") >> \o MessageOrStatus(res, json)

UnexpectedFormatText(issues) ==
    << Lit("Unexpected response format from Azion API"), Lit(": "), ZodMessage(issues) >>

-----------------------------------------------------------------------------
(* Upstream answers *)

\* fetchFn(...) rejected: the await throws.
Rejected == [kind |-> "rejected"]

Response(ok, status, statusText, body) ==
    [kind |-> "response", ok |-> ok, status |-> status, statusText |-> statusText,
     body |-> body]

\* A body res.json() cannot parse.
Unparseable == [kind |-> "unparseable"]

\* res.json().catch(() => fallback)
ResJson(res, fallback) == IF res.body = Unparseable THEN fallback ELSE res.body

Entity(items) ==
    JObj([id |-> JNum(48334), name |-> JStr("blocklist"), type |-> JStr("ip_cidr"),
          items |-> items, last_editor |-> JStr("editor"),
          last_modified |-> JStr("2024-01-01T00:00:00Z"), active |-> JBool(TRUE)])

\* Bodies of a 2xx answer to a GET of the entity, the list holding `cur`.
OkEntityBodies(cur) ==
    { JObj([data |-> Entity(JArr(cur))]),
      JObj([data |-> Entity(JNum(5))]),
      JObj([data |-> Entity(JArr(<< JNum(5) >>))]),
      JObj([data |-> JObj([id |-> JNum(48334)])]),
      JObj([detail |-> JStr("No content.")]),
      JNull,
      Unparseable }

\* Bodies of a 2xx answer to a write that left the entity holding `cur`.
OkWriteBodies(cur) ==
    { JObj([state |-> JStr("executed"), data |-> Entity(JArr(cur))]),
      JObj([data |-> Entity(JArr(cur))]),
      JObj([state |-> JStr("executed"), data |-> Entity(JNum(5))]),
      JNull,
      Unparseable }

\* Bodies of a non-2xx answer.
ErrorBodies ==
    { JObj([message |-> JStr("Not found.")]),
      JObj([detail |-> JStr("Not found.")]),
      JNull,
      Unparseable }

OkResponses(bodies) == { Response(TRUE, 200, "OK", b) : b \in bodies }

ErrorResponses(bodies) == { Response(FALSE, 404, "Not Found", b) : b \in bodies }

-----------------------------------------------------------------------------
(* Requests *)

Request(method, url, token, body) ==
    [method |-> method, url |-> url,
     authorization |-> << Lit("Token "), Str(token) >>, body |-> body]

\* process.env.AZION_API_TOKEN || process.env.AZION_TOKEN
Token == Or(env.AZION_API_TOKEN, env.AZION_TOKEN)

Return(p, text) ==
    /\ pc' = [pc EXCEPT ![p] = "done"]
    /\ reply' = [reply EXCEPT ![p] = text]

\* An exception leaves execute: the promise rejects, no ToolResponse.
Throw(p) ==
    /\ pc' = [pc EXCEPT ![p] = "threw"]
    /\ reply' = reply

Send(p, req, at) ==
    /\ calls' = [calls EXCEPT ![p] = Append(@, req)]
    /\ pc' = [pc EXCEPT ![p] = at]
    /\ reply' = reply

Begin(p, name, a) ==
    /\ pc[p] = "idle"
    /\ tool' = [tool EXCEPT ![p] = name]
    /\ args' = [args EXCEPT ![p] = a]
    /\ startList' = [startList EXCEPT ![p] = list]

-----------------------------------------------------------------------------
(* Response validation (zod safeParse): the paths that do not conform *)

IsString(v) == v.kind = "string"
IsNumber(v) == v.kind = "number"
IsBoolean(v) == v.kind = "boolean"
IsObject(v) == v.kind = "object"
IsStringArray(v) == v.kind = "array" /\ \A i \in DOMAIN v.elems : IsString(v.elems[i])

Issue(bad, path) == IF bad THEN {path} ELSE {}

\* z.object({ id, name, type, items, last_editor, last_modified, active })
EntityIssues(d) ==
    IF ~IsObject(d) THEN {"data"}
    ELSE Issue(~IsNumber(Prop(d, "id")), "data.id")
         \cup Issue(~IsString(Prop(d, "name")), "data.name")
         \cup Issue(~IsString(Prop(d, "type")), "data.type")
         \cup Issue(~IsStringArray(Prop(d, "items")), "data.items")
         \cup Issue(~IsString(Prop(d, "last_editor")), "data.last_editor")
         \cup Issue(~IsString(Prop(d, "last_modified")), "data.last_modified")
         \cup Issue(~IsBoolean(Prop(d, "active")), "data.active")

\* z.object({ data: z.object({...}) }) of get_network_list
GetSchemaIssues(json) ==
    IF ~IsObject(json) THEN {"(root)"} ELSE EntityIssues(Prop(json, "data"))

\* z.object({ state: z.string(), data: z.object({...}) }) of update and create
StateDataSchemaIssues(json) ==
    IF ~IsObject(json) THEN {"(root)"}
    ELSE Issue(~IsString(Prop(json, "state")), "state")
         \cup EntityIssues(Prop(json, "data"))

-----------------------------------------------------------------------------
(* update_network_list *)

NetworkListId == JNum(48334)

EntityUrl(a) == << Lit("https://edge-api.azion.net/workspace/api/network_lists/"),
                   Str(Prop(a, "networkListId")) >>

UpdateArgs ==
    { JObj([networkListId |-> NetworkListId, newItems |-> StrArr(n)])
        : n \in SeqsUpTo(Items, MaxLen) }
    \cup { JObj([networkListId |-> NetworkListId, newItems |-> StrArr(n),
                 replaceAll |-> JBool(b)])
        : n \in SeqsUpTo(Items, MaxLen), b \in BOOLEAN }

\* The merge of lines 526-534 throws when currentData is null, or when a
\* spread operand is not iterable.
MergeThrows(getRes, newItems) ==
    /\ getRes.ok
    /\ LET currentData == ResJson(getRes, JObj(NoFields)) IN
         \/ ~Readable(currentData)
         \/ /\ Truthy(Prop(currentData, "data"))
            /\ Truthy(Prop(Prop(currentData, "data"), "items"))
            /\ \/ ~Iterable(Prop(Prop(currentData, "data"), "items"))
               \/ ~Iterable(newItems)

\* MergedItems without the Set: the combined items as they are.
MergedItemsNoDedup(getRes, newItems) ==
    IF ~getRes.ok THEN newItems
    ELSE LET currentData == ResJson(getRes, JObj(NoFields)) IN
         IF /\ Truthy(Prop(currentData, "data"))
            /\ Truthy(Prop(Prop(currentData, "data"), "items"))
         THEN JArr(Prop(Prop(currentData, "data"), "items").elems \o newItems.elems)
         ELSE newItems

\* MergedItems with the spreads swapped: new items first.
MergedItemsNewFirst(getRes, newItems) ==
    IF ~getRes.ok THEN newItems
    ELSE LET currentData == ResJson(getRes, JObj(NoFields)) IN
         IF /\ Truthy(Prop(currentData, "data"))
            /\ Truthy(Prop(Prop(currentData, "data"), "items"))
         THEN JArr(SetSpread(newItems.elems
                             \o Prop(Prop(currentData, "data"), "items").elems))
         ELSE newItems

\* finalItems after the pre-fetch GET answered.
MergedItems(getRes, newItems) ==
    IF ~getRes.ok THEN newItems
    ELSE LET currentData == ResJson(getRes, JObj(NoFields)) IN
         IF /\ Truthy(Prop(currentData, "data"))
            /\ Truthy(Prop(Prop(currentData, "data"), "items"))
         THEN LET existingItems == Prop(Prop(currentData, "data"), "items")
                  combinedItems == existingItems.elems \o newItems.elems
              IN JArr(SetSpread(combinedItems))
         ELSE newItems

PatchRequest(a, finalItems) ==
    Request("PATCH", EntityUrl(a), Token, Json(JObj([items |-> finalItems])))

GetRequest(a) == Request("GET", EntityUrl(a), Token, JUndef)

UpdateSuccessText(state, data) ==
    << Lit("Successfully updated network list (State: "), Str(state), Lit(").\n\n"),
       Json(data) >>

\* UpdateReply without the safeParse of lines 575-586.
UpdateReplyUnvalidated(res) ==
    LET json == ResJson(res, JObj([message |-> InvalidJsonMessage])) IN
    IF ~res.ok THEN FailedText(res, json)
    ELSE UpdateSuccessText(Prop(json, "state"), Prop(json, "data"))

\* Lines 551-597: the reply to the PATCH's answer.
UpdateReply(res) ==
    LET json == ResJson(res, JObj([message |-> InvalidJsonMessage])) IN
    IF ~res.ok THEN FailedText(res, json)
    ELSE IF StateDataSchemaIssues(json) # {}
         THEN UnexpectedFormatText(StateDataSchemaIssues(json))
         ELSE UpdateSuccessText(Prop(json, "state"), Prop(json, "data"))

\* Reading json.message of a null body throws.
ReplyThrows(res) ==
    ~res.ok /\ ~Readable(ResJson(res, JObj([message |-> InvalidJsonMessage])))

\* What the upstream may answer to a GET of the entity.
GetOutcomes ==
    OkResponses(OkEntityBodies(list)) \cup ErrorResponses(ErrorBodies) \cup {Rejected}

\* What the upstream may answer to a write whose body carries `items`; a 2xx
\* answer means the write was applied.
WriteOutcomes(items) ==
    OkResponses(OkWriteBodies(items)) \cup ErrorResponses(ErrorBodies) \cup {Rejected}

\* UpdateStart without the token check of lines 492-501.
UpdateStartUnguardedFrom(p, argSet) ==
    \E a \in argSet :
        /\ Begin(p, "update_network_list", a)
        /\ IF ~hasFetch THEN Return(p, NoFetchText) /\ calls' = calls
           ELSE IF ~Truthy(Prop(a, "replaceAll"))
                THEN Send(p, GetRequest(a), "awaitGet")
                ELSE Send(p, PatchRequest(a, Prop(a, "newItems")), "awaitPatch")
        /\ UNCHANGED <<env, hasFetch, list, local, resps>>

\* UpdateStart reading the current items whatever replaceAll says.
UpdateStartAlwaysReadsFrom(p, argSet) ==
    \E a \in argSet :
        /\ Begin(p, "update_network_list", a)
        /\ IF ~Truthy(Token) THEN Return(p, MissingTokenText) /\ calls' = calls
           ELSE IF ~hasFetch THEN Return(p, NoFetchText) /\ calls' = calls
           ELSE Send(p, GetRequest(a), "awaitGet")
        /\ UNCHANGED <<env, hasFetch, list, local, resps>>

\* Lines 490-524 and 537-549: up to the first fetch.
UpdateStartFrom(p, argSet) ==
    \E a \in argSet :
        /\ Begin(p, "update_network_list", a)
        /\ IF ~Truthy(Token) THEN Return(p, MissingTokenText) /\ calls' = calls
           ELSE IF ~hasFetch THEN Return(p, NoFetchText) /\ calls' = calls
           ELSE IF ~Truthy(Prop(a, "replaceAll"))
                THEN Send(p, GetRequest(a), "awaitGet")
                ELSE Send(p, PatchRequest(a, Prop(a, "newItems")), "awaitPatch")
        /\ UNCHANGED <<env, hasFetch, list, local, resps>>

UpdateStart(p) == UpdateStartFrom(p, UpdateArgs)

\* Lines 518-549: the pre-fetch GET answers; merge and send the PATCH.
UpdateGetRespondsWith(p, outcomes) ==
    /\ pc[p] = "awaitGet"
    /\ \E r \in outcomes :
        IF r = Rejected
        THEN Throw(p) /\ UNCHANGED <<calls, resps>>
        ELSE /\ resps' = [resps EXCEPT ![p] = Append(@, r)]
             /\ IF MergeThrows(r, Prop(args[p], "newItems"))
                THEN Throw(p) /\ calls' = calls
                ELSE Send(p, PatchRequest(args[p], MergedItems(r, Prop(args[p], "newItems"))),
                          "awaitPatch")
    /\ UNCHANGED <<env, hasFetch, list, tool, args, local, startList>>

UpdateGetResponds(p) == UpdateGetRespondsWith(p, GetOutcomes)

PatchBodyItems(p) == calls[p][Len(calls[p])].body.of.fields.items

\* UpdatePatchRespondsWith sending the PATCH once more after a non-2xx answer.
UpdatePatchRetriesWith(p, outcomes) ==
    /\ pc[p] = "awaitPatch"
    /\ \E r \in outcomes :
        IF r = Rejected
        THEN Throw(p) /\ UNCHANGED <<list, resps, calls>>
        ELSE /\ resps' = [resps EXCEPT ![p] = Append(@, r)]
             /\ list' = IF r.ok THEN PatchBodyItems(p).elems ELSE list
             /\ IF ~r.ok /\ Len(resps[p]) < 2
                THEN Send(p, calls[p][Len(calls[p])], "awaitPatch")
                ELSE /\ calls' = calls
                     /\ IF ReplyThrows(r) THEN Throw(p) ELSE Return(p, UpdateReply(r))
    /\ UNCHANGED <<env, hasFetch, tool, args, local, startList>>

\* Lines 541-597: the upstream handles the PATCH and answers; reply.
UpdatePatchRespondsWith(p, outcomes) ==
    /\ pc[p] = "awaitPatch"
    /\ \E r \in outcomes :
        IF r = Rejected
        THEN Throw(p) /\ UNCHANGED <<list, resps>>
        ELSE /\ resps' = [resps EXCEPT ![p] = Append(@, r)]
             /\ list' = IF r.ok THEN PatchBodyItems(p).elems ELSE list
             /\ IF ReplyThrows(r) THEN Throw(p) ELSE Return(p, UpdateReply(r))
    /\ UNCHANGED <<env, hasFetch, tool, args, local, calls, startList>>

UpdatePatchResponds(p) ==
    UpdatePatchRespondsWith(p, WriteOutcomes(PatchBodyItems(p).elems))

-----------------------------------------------------------------------------
(* get_network_list *)

CheckIps == {JStr("A"), JStr("B"), JStr("a"), JStr("")}

GetArgs ==
    { JObj([networkListId |-> NetworkListId]) }
    \cup { JObj([networkListId |-> NetworkListId, checkIp |-> s]) : s \in CheckIps }

\* Lines 449-455: ipCheckResult.
IpCheckResult(a, networkList) ==
    IF Truthy(Prop(a, "checkIp"))
    THEN << Lit("\n\nIP Check: "), Str(Prop(a, "checkIp")), Lit(" "),
            IF IsIn(Prop(a, "checkIp"), Prop(networkList, "items").elems)
            THEN Lit("is already present") ELSE Lit("is NOT present"),
            Lit(" in the network list.") >>
    ELSE <<>>

GetSuccessText(a, networkList) ==
    << Lit("Network List Details (ID: "), Str(Prop(networkList, "id")), Lit("):\n\n"),
       Json(networkList) >> \o IpCheckResult(a, networkList)

\* Lines 412-466: the reply to the GET's answer.
GetReply(a, res) ==
    LET json == ResJson(res, JObj([message |-> InvalidJsonMessage])) IN
    IF ~res.ok THEN FailedText(res, json)
    ELSE IF GetSchemaIssues(json) # {}
         THEN UnexpectedFormatText(GetSchemaIssues(json))
         ELSE GetSuccessText(a, Prop(json, "data"))

\* Lines 380-410: up to the fetch.
GetStartFrom(p, argSet) ==
    \E a \in argSet :
        /\ Begin(p, "get_network_list", a)
        /\ IF ~Truthy(Token) THEN Return(p, MissingTokenText) /\ calls' = calls
           ELSE IF ~hasFetch THEN Return(p, NoFetchText) /\ calls' = calls
           ELSE Send(p, GetRequest(a), "awaitEntity")
        /\ UNCHANGED <<env, hasFetch, list, local, resps>>

GetStart(p) == GetStartFrom(p, GetArgs)

\* Lines 404-466: the upstream answers; reply.
GetResponds(p) ==
    /\ pc[p] = "awaitEntity"
    /\ \E r \in GetOutcomes :
        IF r = Rejected
        THEN Throw(p) /\ resps' = resps
        ELSE /\ resps' = [resps EXCEPT ![p] = Append(@, r)]
             /\ IF ReplyThrows(r) THEN Throw(p) ELSE Return(p, GetReply(args[p], r))
    /\ UNCHANGED <<env, hasFetch, list, tool, args, local, calls, startList>>

-----------------------------------------------------------------------------
(* create_network_list *)

CreateArgs ==
    { JObj([name |-> JStr("My IP Blocklist"), type |-> JStr(t), items |-> StrArr(n)])
        : t \in {"ip_cidr", "asn"}, n \in SeqsUpTo(Items, MaxLen) }
    \cup { JObj([name |-> JStr("My IP Blocklist"), type |-> JStr("ip_cidr"),
                 items |-> StrArr(n), active |-> JBool(b)])
        : n \in SeqsUpTo(Items, MaxLen), b \in BOOLEAN }

CollectionUrl == << Lit("https://edge-api.azion.net/workspace/api/network_lists") >>

\* CreateBody passing the items through a Set, as the merge of update does.
CreateBodyDeduped(a) ==
    JObj([name |-> Prop(a, "name"), type |-> Prop(a, "type"),
          items |-> JArr(SetSpread(Prop(a, "items").elems)),
          active |-> Coalesce(Prop(a, "active"), JBool(TRUE))])

\* Lines 645-650.
CreateBody(a) ==
    JObj([name |-> Prop(a, "name"), type |-> Prop(a, "type"), items |-> Prop(a, "items"),
          active |-> Coalesce(Prop(a, "active"), JBool(TRUE))])

CreateSuccessText(data) ==
    << Lit("Successfully created network list."), Lit("\n\n"), Json(data) >>

\* Lines 662-708: the reply to the POST's answer.
CreateReply(res) ==
    LET json == ResJson(res, JObj([message |-> InvalidJsonMessage])) IN
    IF ~res.ok THEN FailedText(res, json)
    ELSE IF StateDataSchemaIssues(json) # {}
         THEN UnexpectedFormatText(StateDataSchemaIssues(json))
         ELSE CreateSuccessText(Prop(json, "data"))

\* Lines 621-660: up to the fetch.
CreateStartFrom(p, argSet) ==
    \E a \in argSet :
        /\ Begin(p, "create_network_list", a)
        /\ IF ~Truthy(Token) THEN Return(p, MissingTokenText) /\ calls' = calls
           ELSE IF ~hasFetch THEN Return(p, NoFetchText) /\ calls' = calls
           ELSE Send(p, Request("POST", CollectionUrl, Token, Json(CreateBody(a))),
                     "awaitCreate")
        /\ UNCHANGED <<env, hasFetch, list, local, resps>>

CreateStart(p) == CreateStartFrom(p, CreateArgs)

\* Lines 652-708: the upstream answers; reply.  The list created is another
\* entity than the one the other tools read and update.
CreateResponds(p) ==
    /\ pc[p] = "awaitCreate"
    /\ \E r \in WriteOutcomes(Prop(args[p], "items").elems) :
        IF r = Rejected
        THEN Throw(p) /\ resps' = resps
        ELSE /\ resps' = [resps EXCEPT ![p] = Append(@, r)]
             /\ IF ReplyThrows(r) THEN Throw(p) ELSE Return(p, CreateReply(r))
    /\ UNCHANGED <<env, hasFetch, list, tool, args, local, calls, startList>>

-----------------------------------------------------------------------------
(* list_network_lists *)

ListUrl == CollectionUrl \o << Lit("?type=ip_cidr") >>

Summary ==
    JObj([id |-> JNum(48334), name |-> JStr("blocklist"), type |-> JStr("ip_cidr"),
          last_editor |-> JStr("editor"),
          last_modified |-> JStr("2024-01-01T00:00:00Z"), active |-> JBool(TRUE)])

OkListBodies ==
    { JObj([count |-> JNum(1), results |-> JArr(<< Summary >>)]),
      JObj([count |-> JNum(0), results |-> JArr(<<>>)]),
      JObj([count |-> JNum(1), results |-> Summary]),
      JObj([results |-> JArr(<< Summary >>)]),
      JObj([count |-> JNum(1), results |-> JArr(<< JObj([id |-> JStr("48334")]) >>)]),
      JNull,
      Unparseable }

SummaryIssues(d) ==
    IF ~IsObject(d) THEN {"results[]"}
    ELSE Issue(~IsNumber(Prop(d, "id")), "results[].id")
         \cup Issue(~IsString(Prop(d, "name")), "results[].name")
         \cup Issue(~IsString(Prop(d, "type")), "results[].type")
         \cup Issue(~IsString(Prop(d, "last_editor")), "results[].last_editor")
         \cup Issue(~IsString(Prop(d, "last_modified")), "results[].last_modified")
         \cup Issue(~IsBoolean(Prop(d, "active")), "results[].active")

\* z.object({ count: z.number(), results: z.array(NetworkListSchema) })
ListSchemaIssues(json) ==
    IF ~IsObject(json) THEN {"(root)"}
    ELSE Issue(~IsNumber(Prop(json, "count")), "count")
         \cup (IF Prop(json, "results").kind # "array" THEN {"results"}
               ELSE UNION { SummaryIssues(Prop(json, "results").elems[i])
                              : i \in DOMAIN Prop(json, "results").elems })

\* Line 310: the fallback of an unparseable body names the status.
ListInvalidJsonMessage(res) ==
    JStr("Invalid JSON response from Azion API {status: " \o ToString(res.status) \o "}")

ListSuccessText(count, results) ==
    << Lit("Found "), Str(count), Lit(" network lists.\n\n"), Json(results) >>

\* Lines 310-357: the reply to the GET's answer.
ListReply(res) ==
    LET json == ResJson(res, JObj([message |-> ListInvalidJsonMessage(res)])) IN
    IF ~res.ok THEN FailedText(res, json)
    ELSE IF ListSchemaIssues(json) # {}
         THEN UnexpectedFormatText(ListSchemaIssues(json))
         ELSE ListSuccessText(Prop(json, "count"), Prop(json, "results"))

ListOutcomes == OkResponses(OkListBodies) \cup ErrorResponses(ErrorBodies) \cup {Rejected}

\* Lines 275-308: up to the fetch.
ListStart(p) ==
    /\ Begin(p, "list_network_lists", JObj(NoFields))
    /\ IF ~Truthy(Token) THEN Return(p, MissingTokenText) /\ calls' = calls
       ELSE IF ~hasFetch THEN Return(p, NoFetchText) /\ calls' = calls
       ELSE Send(p, Request("GET", ListUrl, Token, JUndef), "awaitList")
    /\ UNCHANGED <<env, hasFetch, list, local, resps>>

\* Lines 302-357: the upstream answers; reply.
ListResponds(p) ==
    /\ pc[p] = "awaitList"
    /\ \E r \in ListOutcomes :
        IF r = Rejected
        THEN Throw(p) /\ resps' = resps
        ELSE /\ resps' = [resps EXCEPT ![p] = Append(@, r)]
             /\ IF ReplyThrows(r) THEN Throw(p) ELSE Return(p, ListReply(r))
    /\ UNCHANGED <<env, hasFetch, list, tool, args, local, calls, startList>>

-----------------------------------------------------------------------------
(* query_http_events *)

Pad2(n) == IF n < 10 THEN "0" \o ToString(n) ELSE ToString(n)

Pad3(n) == IF n < 100 THEN "0" \o Pad2(n) ELSE ToString(n)

\* Date.prototype.toISOString, for the instants of January 1970.
ToISOString(ms) ==
    "1970-01-" \o Pad2((ms \div 86400000) + 1) \o "T" \o Pad2((ms \div 3600000) % 24)
    \o ":" \o Pad2((ms \div 60000) % 60) \o ":" \o Pad2((ms \div 1000) % 60)
    \o "." \o Pad3(ms % 1000) \o "Z"

\* Readings of new Date().getTime().
ClockReadings == {300000, 3723004, 86400000}

HttpEventsArgs ==
    { JObj(NoFields),
      JObj([begin |-> JStr("2024-05-01T00:00:00Z")]),
      JObj([end |-> JStr("2024-05-01T01:00:00Z")]),
      JObj([begin |-> JStr("2024-05-01T00:00:00Z"), end |-> JStr("2024-05-01T01:00:00Z")]) }

\* Lines 99-104.
DefaultEnd(now) == JStr(ToISOString(now))

\* DefaultBegin taking the five minutes in seconds.
DefaultBeginSeconds(now) == JStr(ToISOString(now - 5 * 60))

DefaultBegin(now) == JStr(ToISOString(now - 5 * 60 * 1000))

BeginOf(a, now) == Coalesce(Prop(a, "begin"), DefaultBegin(now))

EndOf(a, now) == Coalesce(Prop(a, "end"), DefaultEnd(now))

GraphqlUrl == << Lit("https://api-origin.azionapi.net/events/graphql") >>

\* Lines 168-180.
HttpEventsRequest(begin, end) ==
    Request("POST", GraphqlUrl, Token,
            Json(JObj([query |-> JStr("query httpEvents"),
                       variables |-> JObj([tsRange_begin |-> begin, tsRange_end |-> end])])))

Event == JObj([ts |-> JStr("2024-05-01T00:10:00Z"), host |-> JStr("example.com"),
               status |-> JNum(200)])

OkEventBodies ==
    { JObj([data |-> JObj([httpEvents |-> JArr(<< Event >>)])]),
      JObj([data |-> JObj([httpEvents |-> JArr(<<>>)])]),
      JObj([data |-> JObj([httpEvents |-> Event])]),
      JObj([data |-> JObj([httpEvents |-> JArr(<< JObj([host |-> JStr("example.com")]) >>)])]),
      JObj([errors |-> JArr(<< JObj([message |-> JStr("Bad query.")]) >>)]),
      JNull,
      Unparseable }

EventErrorBodies ==
    { JObj([errors |-> JArr(<< JObj([message |-> JStr("Bad query.")]) >>)]),
      JObj([errors |-> JArr(<<>>)]),
      JObj([message |-> JStr("Not found.")]),
      JNull,
      Unparseable }

IsOptional(v, ok) == v.kind \in {"undefined", "null"} \/ ok

\* HttpEventSchema: ts is required, every other field nullable and optional.
EventIssues(e) ==
    IF ~IsObject(e) THEN {"data.httpEvents[]"}
    ELSE Issue(~IsString(Prop(e, "ts")), "data.httpEvents[].ts")
         \cup Issue(~IsOptional(Prop(e, "host"), IsString(Prop(e, "host"))),
                    "data.httpEvents[].host")
         \cup Issue(~IsOptional(Prop(e, "status"), IsNumber(Prop(e, "status"))),
                    "data.httpEvents[].status")

\* z.object({ data: z.object({ httpEvents: z.array(HttpEventSchema) }) })
EventsSchemaIssues(json) ==
    IF ~IsObject(json) THEN {"(root)"}
    ELSE IF ~IsObject(Prop(json, "data")) THEN {"data"}
    ELSE IF Prop(Prop(json, "data"), "httpEvents").kind # "array" THEN {"data.httpEvents"}
    ELSE UNION { EventIssues(Prop(Prop(json, "data"), "httpEvents").elems[i])
                   : i \in DOMAIN Prop(Prop(json, "data"), "httpEvents").elems }

\* Lines 185-187: json.errors[0]?.message, or the status.
EventsMessage(res, json) ==
    IF /\ Truthy(json)
       /\ Truthy(Prop(json, "errors"))
       /\ Prop(json, "errors").kind = "array"
       /\ Truthy(Prop(First(Prop(json, "errors")), "message"))
    THEN << Str(Prop(First(Prop(json, "errors")), "message")) >>
    ELSE HttpStatusText(res)

EventsSuccessText(begin, end, events) ==
    << Lit("HTTP Events from "), Str(begin), Lit(" to "), Str(end),
       Lit("\n\nRaw data:\n"), Json(events) >>

\* Lines 182-255: the reply to the POST's answer.
HttpEventsReply(begin, end, res) ==
    LET json == ResJson(res, JObj([errors |-> JArr(<< JObj([message |-> InvalidJsonMessage]) >>)]))
    IN
    IF ~res.ok
    THEN << Lit("Azion GraphQL request failed: ") >> \o EventsMessage(res, json)
    ELSE IF EventsSchemaIssues(json) # {}
         THEN UnexpectedFormatText(EventsSchemaIssues(json))
         ELSE EventsSuccessText(begin, end, Prop(Prop(json, "data"), "httpEvents"))

EventsOutcomes ==
    OkResponses(OkEventBodies) \cup ErrorResponses(EventErrorBodies) \cup {Rejected}

\* Lines 98-180: up to the fetch.
HttpEventsStartFrom(p, argSet) ==
    \E a \in argSet, now \in ClockReadings :
        /\ Begin(p, "query_http_events", a)
        /\ local' = [local EXCEPT ![p] = [now |-> now, begin |-> BeginOf(a, now),
                                          end |-> EndOf(a, now)]]
        /\ IF ~Truthy(Token) THEN Return(p, MissingTokenText) /\ calls' = calls
           ELSE IF ~hasFetch THEN Return(p, NoFetchText) /\ calls' = calls
           ELSE Send(p, HttpEventsRequest(BeginOf(a, now), EndOf(a, now)), "awaitEvents")
        /\ UNCHANGED <<env, hasFetch, list, resps>>

HttpEventsStart(p) == HttpEventsStartFrom(p, HttpEventsArgs)

\* Lines 173-255: the upstream answers; reply.
HttpEventsResponds(p) ==
    /\ pc[p] = "awaitEvents"
    /\ \E r \in EventsOutcomes :
        IF r = Rejected
        THEN Throw(p) /\ resps' = resps
        ELSE /\ resps' = [resps EXCEPT ![p] = Append(@, r)]
             /\ Return(p, HttpEventsReply(local[p].begin, local[p].end, r))
    /\ UNCHANGED <<env, hasFetch, list, tool, args, local, calls, startList>>

-----------------------------------------------------------------------------
(* Input schemas: the paths of an argument object that do not conform *)

\* z.X().optional(): an absent field conforms.
Absent(v) == v.kind = "undefined"

\* inputSchema of query_http_events, lines 94-97.
HttpEventsInputIssues(a) ==
    Issue(~(Absent(Prop(a, "begin")) \/ IsString(Prop(a, "begin"))), "begin")
    \cup Issue(~(Absent(Prop(a, "end")) \/ IsString(Prop(a, "end"))), "end")

\* inputSchema of list_network_lists, line 274: {}.
ListInputIssues(a) == {}

\* inputSchema of get_network_list, lines 376-379.
GetInputIssues(a) ==
    Issue(~IsNumber(Prop(a, "networkListId")), "networkListId")
    \cup Issue(~(Absent(Prop(a, "checkIp")) \/ IsString(Prop(a, "checkIp"))), "checkIp")

\* The inputSchema of update_network_list with newItems: z.array(z.any()).
UpdateInputIssuesAnyItems(a) ==
    Issue(~IsNumber(Prop(a, "networkListId")), "networkListId")
    \cup Issue(Prop(a, "newItems").kind # "array", "newItems")
    \cup Issue(~(Absent(Prop(a, "replaceAll")) \/ IsBoolean(Prop(a, "replaceAll"))),
               "replaceAll")

\* inputSchema of update_network_list, lines 485-489.
UpdateInputIssues(a) ==
    Issue(~IsNumber(Prop(a, "networkListId")), "networkListId")
    \cup Issue(~IsStringArray(Prop(a, "newItems")), "newItems")
    \cup Issue(~(Absent(Prop(a, "replaceAll")) \/ IsBoolean(Prop(a, "replaceAll"))),
               "replaceAll")

\* inputSchema of create_network_list, lines 615-620.
CreateInputIssues(a) ==
    Issue(~IsString(Prop(a, "name")), "name")
    \cup Issue(Prop(a, "type") \notin {JStr("ip_cidr"), JStr("asn"), JStr("countries")},
               "type")
    \cup Issue(~IsStringArray(Prop(a, "items")), "items")
    \cup Issue(~(Absent(Prop(a, "active")) \/ IsBoolean(Prop(a, "active"))), "active")

InputIssues(name, a) ==
    CASE name = "query_http_events" -> HttpEventsInputIssues(a)
      [] name = "list_network_lists" -> ListInputIssues(a)
      [] name = "get_network_list" -> GetInputIssues(a)
      [] name = "update_network_list" -> UpdateInputIssues(a)
      [] name = "create_network_list" -> CreateInputIssues(a)

\* Argument objects a caller may send besides the well-formed ones.
OtherHttpEventsArgs ==
    { JObj([begin |-> JNum(5)]),
      JObj([begin |-> JStr("2024-05-01T00:00:00Z"), end |-> JNull]) }

OtherGetArgs ==
    { JObj(NoFields),
      JObj([networkListId |-> JStr("48334")]),
      JObj([networkListId |-> NetworkListId, checkIp |-> JNum(5)]) }

OtherUpdateArgs ==
    { JObj([newItems |-> StrArr(<< "A" >>)]),
      JObj([networkListId |-> NetworkListId]),
      JObj([networkListId |-> NetworkListId, newItems |-> JStr("A")]),
      JObj([networkListId |-> NetworkListId, newItems |-> JArr(<< JNum(5) >>)]),
      JObj([networkListId |-> JStr("48334"), newItems |-> StrArr(<< "A" >>)]),
      JObj([networkListId |-> NetworkListId, newItems |-> StrArr(<< "A" >>),
            replaceAll |-> JStr("true")]) }

OtherCreateArgs ==
    { JObj([name |-> JStr("My IP Blocklist"), type |-> JStr("country"),
            items |-> StrArr(<< "A" >>)]),
      JObj([name |-> JStr("My IP Blocklist"), type |-> JStr("ip_cidr")]),
      JObj([name |-> JNum(5), type |-> JStr("ip_cidr"), items |-> StrArr(<< "A" >>)]),
      JObj([name |-> JStr("My IP Blocklist"), type |-> JStr("ip_cidr"),
            items |-> JStr("A")]),
      JObj([name |-> JStr("My IP Blocklist"), type |-> JStr("ip_cidr"),
            items |-> StrArr(<< "A" >>), active |-> JStr("yes")]) }

\* The raw argument objects of a tools/call request, by tool.
RawArgs(name) ==
    CASE name = "query_http_events" -> HttpEventsArgs \cup OtherHttpEventsArgs
      [] name = "list_network_lists" -> { JObj(NoFields) }
      [] name = "get_network_list" -> GetArgs \cup OtherGetArgs
      [] name = "update_network_list" -> UpdateArgs \cup OtherUpdateArgs
      [] name = "create_network_list" -> CreateArgs \cup OtherCreateArgs

-----------------------------------------------------------------------------
(* Dispatch: the server validates the raw arguments, then runs execute *)

ToolNames ==
    { "query_http_events", "list_network_lists", "create_network_list",
      "get_network_list", "update_network_list" }

\* The raw argument objects the validator lets through to execute.
Accepted(name) == { a \in RawArgs(name) : InputIssues(name, a) = {} }

AcceptedHttpEventsArgs == Accepted("query_http_events")

AcceptedGetArgs == Accepted("get_network_list")

AcceptedUpdateArgs == Accepted("update_network_list")

AcceptedCreateArgs == Accepted("create_network_list")

\* The requests the validator stops.
RejectedCalls ==
    { c \in UNION { { [name |-> n, args |-> a] : a \in RawArgs(n) } : n \in ToolNames } :
        InputIssues(c.name, c.args) # {} }

InvalidArgumentsText(name, issues) ==
    << Lit("Invalid arguments for tool "), Str(JStr(name)), Lit(": "), ZodMessage(issues) >>

\* Validation failure short-circuits: execute is not run, the reply
\* describes the mismatch.
RejectArguments(p) ==
    \E c \in RejectedCalls :
        /\ Begin(p, c.name, c.args)
        /\ Return(p, InvalidArgumentsText(c.name, InputIssues(c.name, c.args)))
        /\ UNCHANGED <<env, hasFetch, list, local, calls, resps>>

-----------------------------------------------------------------------------
(* Specifications *)

EnvValues ==
    { [AZION_API_TOKEN |-> a, AZION_TOKEN |-> b]
        : a \in {JStr(""), JStr("tokenA")}, b \in {JUndef, JStr("tokenB")} }

Lists == { StrArr(s).elems : s \in SeqsUpTo(HeldItems, MaxHeld) }

NoLocal == [now |-> 0, begin |-> JUndef, end |-> JUndef]

Init ==
    /\ env \in EnvValues
    /\ hasFetch \in BOOLEAN
    /\ list \in Lists
    /\ pc = [p \in Procs |-> "idle"]
    /\ tool = [p \in Procs |-> "none"]
    /\ args = [p \in Procs |-> JUndef]
    /\ local = [p \in Procs |-> NoLocal]
    /\ calls = [p \in Procs |-> <<>>]
    /\ resps = [p \in Procs |-> <<>>]
    /\ startList = [p \in Procs |-> <<>>]
    /\ reply = [p \in Procs |-> NoReply]

\* One invocation, of any tool.
Next ==
    \/ HttpEventsStart(1)
    \/ HttpEventsResponds(1)
    \/ ListStart(1)
    \/ ListResponds(1)
    \/ GetStart(1)
    \/ GetResponds(1)
    \/ UpdateStart(1)
    \/ UpdateGetResponds(1)
    \/ UpdatePatchResponds(1)
    \/ CreateStart(1)
    \/ CreateResponds(1)

Spec == Init /\ [][Next]_vars

\* Longest item sequence passed by the concurrent invocations.
MaxRaceLen == 1

RaceArgs ==
    { a \in UpdateArgs : Len(Prop(a, "newItems").elems) <= MaxRaceLen }

\* The upstream answering 2xx with the envelope of its endpoint.
FaithfulGet == { Response(TRUE, 200, "OK", JObj([data |-> Entity(JArr(list))])) }

FaithfulWrite(items) ==
    { Response(TRUE, 200, "OK",
               JObj([state |-> JStr("executed"), data |-> Entity(JArr(items))])) }

\* Two concurrent invocations of update_network_list on the same list.
RaceNext ==
    \E p \in Procs :
        \/ UpdateStartFrom(p, RaceArgs)
        \/ UpdateGetRespondsWith(p, FaithfulGet)
        \/ UpdatePatchRespondsWith(p, FaithfulWrite(PatchBodyItems(p).elems))

\* The token is set and fetch is available.
RaceInit ==
    /\ Init
    /\ env = [AZION_API_TOKEN |-> JStr("tokenA"), AZION_TOKEN |-> JUndef]
    /\ hasFetch

RaceSpec == RaceInit /\ [][RaceNext]_vars

\* One tools/call request with a raw argument object, of any tool.
DispatchNext ==
    \/ RejectArguments(1)
    \/ HttpEventsStartFrom(1, AcceptedHttpEventsArgs)
    \/ HttpEventsResponds(1)
    \/ ListStart(1)
    \/ ListResponds(1)
    \/ GetStartFrom(1, AcceptedGetArgs)
    \/ GetResponds(1)
    \/ UpdateStartFrom(1, AcceptedUpdateArgs)
    \/ UpdateGetResponds(1)
    \/ UpdatePatchResponds(1)
    \/ CreateStartFrom(1, AcceptedCreateArgs)
    \/ CreateResponds(1)

DispatchSpec == Init /\ [][DispatchNext]_vars

-----------------------------------------------------------------------------
(* What the properties speak of *)

Range(seq) == { seq[i] : i \in DOMAIN seq }

FirstPos(x, seq) == CHOOSE i \in DOMAIN seq : seq[i] = x /\ \A j \in 1..(i - 1) : seq[j] # x

\* r holds each value of e and n once, in the order of first occurrence in
\* e followed by n.
IsDedupedUnion(r, e, n) ==
    /\ NoDup(r)
    /\ Range(r) = Range(e) \cup Range(n)
    /\ \A i, j \in DOMAIN r : i < j => FirstPos(r[i], e \o n) < FirstPos(r[j], e \o n)

NotSet(v) == v = JUndef \/ v = JStr("")

Invoked(p) == tool[p] # "none"

IsUpdate(p) == tool[p] = "update_network_list"

Supplied(p, k) == k \in DOMAIN args[p].fields

\* replaceAll false or omitted
MergeMode(p) ==
    IsUpdate(p) /\ (~Supplied(p, "replaceAll") \/ args[p].fields.replaceAll = JBool(FALSE))

NewItems(p) == args[p].fields.newItems.elems

Methods(p) == { calls[p][i].method : i \in DOMAIN calls[p] }

PatchSent(p) == "PATCH" \in Methods(p)

PatchItems(p) ==
    LET i == CHOOSE k \in DOMAIN calls[p] : calls[p][k].method = "PATCH"
    IN calls[p][i].body.of.fields.items.elems

\* The pre-fetch GET was answered 2xx with a body holding data.items, a sequence.
GetAnsweredItems(p) ==
    /\ calls[p] # <<>> /\ calls[p][1].method = "GET"
    /\ resps[p] # <<>> /\ resps[p][1].ok
    /\ resps[p][1].body.kind = "object"
    /\ Prop(resps[p][1].body, "data").kind = "object"
    /\ Prop(Prop(resps[p][1].body, "data"), "items").kind = "array"

GetItems(p) == resps[p][1].body.fields.data.fields.items.elems

\* The invocation returned after its last call was answered.
Answered(p) == pc[p] = "done" /\ resps[p] # <<>> /\ Len(resps[p]) = Len(calls[p])

LastResp(p) == resps[p][Len(resps[p])]

AllString(o, ks) == \A k \in ks : Prop(o, k).kind = "string"

StringSeq(v) == v.kind = "array" /\ \A i \in DOMAIN v.elems : v.elems[i].kind = "string"

\* The NetworkList of the data model, with or without its items.
IsNetworkList(d, withItems) ==
    /\ d.kind = "object"
    /\ Prop(d, "id").kind = "number"
    /\ AllString(d, {"name", "type", "last_editor", "last_modified"})
    /\ Prop(d, "active").kind = "boolean"
    /\ withItems => StringSeq(Prop(d, "items"))

IsHttpEvent(e) ==
    /\ e.kind = "object"
    /\ Prop(e, "ts").kind = "string"
    /\ Prop(e, "host").kind \in {"string", "null", "undefined"}
    /\ Prop(e, "status").kind \in {"number", "null", "undefined"}

\* The envelope each tool declares for its final answer.
Envelope(t, j) ==
    /\ j.kind = "object"
    /\ CASE t = "query_http_events" ->
               /\ Prop(j, "data").kind = "object"
               /\ Prop(Prop(j, "data"), "httpEvents").kind = "array"
               /\ \A i \in DOMAIN Prop(Prop(j, "data"), "httpEvents").elems :
                     IsHttpEvent(Prop(Prop(j, "data"), "httpEvents").elems[i])
         [] t = "list_network_lists" ->
               /\ Prop(j, "count").kind = "number"
               /\ Prop(j, "results").kind = "array"
               /\ \A i \in DOMAIN Prop(j, "results").elems :
                     IsNetworkList(Prop(j, "results").elems[i], FALSE)
         [] t = "get_network_list" -> IsNetworkList(Prop(j, "data"), TRUE)
         [] OTHER ->
               /\ Prop(j, "state").kind = "string"
               /\ IsNetworkList(Prop(j, "data"), TRUE)

SuccessPieces ==
    { Lit("HTTP Events from "), Lit("Found "), Lit("Network List Details (ID: "),
      Lit("Successfully updated network list (State: "),
      Lit("Successfully created network list.") }

FailurePieces == { Lit("Azion API request failed: "), Lit("Azion GraphQL request failed: ") }

Succeeded(p) == \E i \in DOMAIN reply[p] : reply[p][i] \in SuccessPieces

IpCheckLines(p) ==
    { i \in DOMAIN reply[p] : reply[p][i] \in {Lit("is already present"), Lit("is NOT present")} }

-----------------------------------------------------------------------------
(* Properties *)

\* C1: with neither AZION_API_TOKEN nor AZION_TOKEN set (non-empty), every
\* tool returns at once a reply containing "Missing AZION_API_TOKEN" and has
\* issued no upstream call.
MissingTokenNoCalls ==
    \A p \in Procs :
        (Invoked(p) /\ NotSet(env.AZION_API_TOKEN) /\ NotSet(env.AZION_TOKEN))
        => /\ pc[p] = "done"
           /\ Contains(reply[p], Lit("Missing AZION_API_TOKEN"))
           /\ calls[p] = <<>>

MissingTokenUpdateReached ==
    \E p \in Procs :
        /\ IsUpdate(p) /\ MergeMode(p) /\ NewItems(p) # <<>>
        /\ NotSet(env.AZION_API_TOKEN) /\ NotSet(env.AZION_TOKEN)
        /\ pc[p] = "done" /\ calls[p] = <<>>
        /\ Contains(reply[p], Lit("Missing AZION_API_TOKEN"))

\* C2: in merge mode, when the pre-fetch GET answers 2xx with data.items = E,
\* the items of the PATCH body are the deduplicated union of E followed by
\* newItems, in first-occurrence order, each value once.
MergeIsDedupedUnion ==
    \A p \in Procs :
        (MergeMode(p) /\ PatchSent(p) /\ GetAnsweredItems(p))
        => IsDedupedUnion(PatchItems(p), GetItems(p), NewItems(p))

MergeExampleReached ==
    \E p \in Procs :
        /\ MergeMode(p) /\ PatchSent(p) /\ GetAnsweredItems(p)
        /\ GetItems(p) = << JStr("A"), JStr("B") >>
        /\ NewItems(p) = << JStr("B"), JStr("C") >>
        /\ PatchItems(p) = << JStr("A"), JStr("B"), JStr("C") >>

\* C3: with replaceAll true no GET is issued, and the items of the PATCH
\* body are newItems verbatim, whatever the upstream list holds.
ReplaceAllVerbatim ==
    \A p \in Procs :
        (IsUpdate(p) /\ Supplied(p, "replaceAll") /\ args[p].fields.replaceAll = JBool(TRUE)
         /\ calls[p] # <<>>)
        => /\ "GET" \notin Methods(p)
           /\ Len(calls[p]) = 1
           /\ PatchSent(p)
           /\ PatchItems(p) = NewItems(p)

ReplaceAllWithDuplicatesReached ==
    \E p \in Procs :
        /\ IsUpdate(p) /\ Supplied(p, "replaceAll") /\ args[p].fields.replaceAll = JBool(TRUE)
        /\ startList[p] = << JStr("A") >>
        /\ NewItems(p) = << JStr("B"), JStr("B") >>
        /\ pc[p] = "done" /\ Succeeded(p)
        /\ Methods(p) = {"PATCH"}
        /\ PatchItems(p) = << JStr("B"), JStr("B") >>
        /\ list = << JStr("B"), JStr("B") >>

MergeOnlyAdds ==
    \A p \in Procs :
        (MergeMode(p) /\ PatchSent(p))
        => \A i \in DOMAIN startList[p] : IsIn(startList[p][i], PatchItems(p))

\* The upstream answered every call the invocation issued (no fetch rejected).
AllAnswered(p) == Len(resps[p]) = Len(calls[p])

\* C6: whatever the upstream answers (non-2xx, an unparseable body, a body
\* of another shape, also to the pre-fetch GET), no invocation throws past
\* the tool boundary, and every invocation that returned holds a reply text.
ExecuteNeverThrows ==
    \A p \in Procs :
        /\ AllAnswered(p) => pc[p] # "threw"
        /\ pc[p] = "done" => reply[p] # NoReply

\* C7: when the final answer is 2xx and does not conform to the tool's
\* envelope, the reply contains "Unexpected response format from Azion API",
\* no success text and no rendering of the payload.
MalformedAnswerReported ==
    \A p \in Procs :
        (Answered(p) /\ LastResp(p).ok /\ ~Envelope(tool[p], LastResp(p).body))
        => /\ Contains(reply[p], Lit("Unexpected response format from Azion API"))
           /\ ~Succeeded(p)
           /\ \A i \in DOMAIN reply[p] : reply[p][i].kind \in {"lit", "zod"}

MalformedListAnswerReached ==
    \E p \in Procs :
        /\ tool[p] = "list_network_lists" /\ Answered(p) /\ LastResp(p).ok
        /\ LastResp(p).body = JObj([count |-> JNum(1), results |-> Summary])
        /\ Contains(reply[p], Lit("Unexpected response format from Azion API"))

\* C8: a merge update's PATCH leaves the list holding the union computed from
\* the items its own GET read, whatever the list held when the PATCH arrived,
\* and the invocation replies success.
StaleUnionOverwrites ==
    [][\A p \in Procs :
          (MergeMode(p) /\ pc[p] = "awaitPatch" /\ pc'[p] = "done")
          => /\ IsDedupedUnion(list', GetItems(p), NewItems(p))
             /\ Contains(reply'[p], Lit("Successfully updated network list (State: "))]_vars

\* C8: both merge updates replied success, and an item the other one wrote is
\* absent from the list, which holds the union of a stale read.
LostUpdateReached ==
    \E p, q \in Procs :
        /\ p # q /\ MergeMode(p) /\ MergeMode(q)
        /\ pc[p] = "done" /\ pc[q] = "done" /\ Succeeded(p) /\ Succeeded(q)
        /\ NewItems(p) # <<>> /\ NewItems(q) # <<>>
        /\ GetItems(p) = startList[p] /\ GetItems(q) = GetItems(p)
        /\ list = PatchItems(p)
        /\ \E i \in DOMAIN NewItems(q) :
              IsIn(NewItems(q)[i], PatchItems(q)) /\ ~IsIn(NewItems(q)[i], list)

\* C9: on a conforming 2xx answer, a supplied checkIp (any string) yields
\* exactly one IP-check line, "is already present" exactly when checkIp
\* equals an element of data.items; without checkIp there is no such line.
IpCheckLineForEveryString ==
    \A p \in Procs :
        (tool[p] = "get_network_list" /\ Answered(p) /\ LastResp(p).ok
         /\ Envelope(tool[p], LastResp(p).body))
        => IF Supplied(p, "checkIp")
           THEN /\ Cardinality(IpCheckLines(p)) = 1
                /\ Contains(reply[p], Lit("is already present"))
                   <=> IsIn(args[p].fields.checkIp,
                            LastResp(p).body.fields.data.fields.items.elems)
           ELSE IpCheckLines(p) = {}

\* The human-readable message a JSON body carries, for the tool reading it.
BodyMessage(t, j) ==
    IF t = "query_http_events" THEN Prop(First(Prop(j, "errors")), "message")
    ELSE Prop(j, "message")

IsSubSeq(a, b) == \E k \in 0..(Len(b) - Len(a)) : \A i \in DOMAIN a : b[k + i] = a[i]

\* The text names the HTTP status of the answer.
CarriesStatus(text, res) ==
    \/ IsSubSeq(HttpStatusText(res), text)
    \/ Contains(text, Str(ListInvalidJsonMessage(res)))

\* C10: on a non-2xx final answer the reply is a failure reply carrying the
\* message of the JSON body when there is one, and the HTTP status otherwise,
\* also when the body is not parseable as JSON.
NonOkCarriesMessageOrStatus ==
    \A p \in Procs :
        (Answered(p) /\ ~LastResp(p).ok)
        => /\ \E i \in DOMAIN reply[p] : reply[p][i] \in FailurePieces
           /\ ~Succeeded(p)
           /\ IF BodyMessage(tool[p], LastResp(p).body).kind = "string"
              THEN Contains(reply[p], Str(BodyMessage(tool[p], LastResp(p).body)))
              ELSE CarriesStatus(reply[p], LastResp(p))

\* C12: a create_network_list invocation that has the token and fetch sends
\* exactly one call, a POST to the collection, whose JSON body has the four
\* fields name, type, items, active: name and type as supplied, items the
\* caller's sequence verbatim (order and duplicates kept), active the supplied
\* value, or true when active is omitted.
CreatePostsArgumentsVerbatim ==
    \A p \in Procs :
        (tool[p] = "create_network_list" /\ Truthy(Token) /\ hasFetch)
        => /\ Len(calls[p]) = 1
           /\ calls[p][1].method = "POST"
           /\ calls[p][1].url = CollectionUrl
           /\ calls[p][1].body.kind = "json"
           /\ LET body == calls[p][1].body.of IN
                /\ body.kind = "object"
                /\ DOMAIN body.fields = {"name", "type", "items", "active"}
                /\ body.fields.name = args[p].fields.name
                /\ body.fields.type = args[p].fields.type
                /\ body.fields.items = args[p].fields.items
                /\ body.fields.active = IF Supplied(p, "active")
                                        THEN args[p].fields.active ELSE JBool(TRUE)

CreateWithDuplicatesReached ==
    \E p \in Procs :
        /\ tool[p] = "create_network_list" /\ pc[p] = "done" /\ Succeeded(p)
        /\ ~Supplied(p, "active")
        /\ args[p].fields.items = StrArr(<< "A", "A" >>)
        /\ Len(calls[p]) = 1
        /\ calls[p][1].body.of.fields.items = StrArr(<< "A", "A" >>)
        /\ calls[p][1].body.of.fields.active = JBool(TRUE)

CreateInactiveReached ==
    \E p \in Procs :
        /\ tool[p] = "create_network_list" /\ Len(calls[p]) = 1
        /\ Supplied(p, "active") /\ args[p].fields.active = JBool(FALSE)
        /\ calls[p][1].body.of.fields.active = JBool(FALSE)

Digit(c) ==
    CASE c = "0" -> 0 [] c = "1" -> 1 [] c = "2" -> 2 [] c = "3" -> 3 [] c = "4" -> 4
      [] c = "5" -> 5 [] c = "6" -> 6 [] c = "7" -> 7 [] c = "8" -> 8 [] c = "9" -> 9

RECURSIVE Decimal(_)
Decimal(s) ==
    IF Len(s) = 0 THEN 0
    ELSE 10 * Decimal(SubSeq(s, 1, Len(s) - 1)) + Digit(SubSeq(s, Len(s), Len(s)))

\* The instant, in milliseconds since the epoch, that an ISO 8601 UTC text
\* "1970-01-DDTHH:MM:SS.mmmZ" denotes.
InstantOf(s) ==
    (Decimal(SubSeq(s, 9, 10)) - 1) * 86400000 + Decimal(SubSeq(s, 12, 13)) * 3600000
    + Decimal(SubSeq(s, 15, 16)) * 60000 + Decimal(SubSeq(s, 18, 19)) * 1000
    + Decimal(SubSeq(s, 21, 23))

IsJanuary1970Text(v) ==
    /\ v.kind = "string" /\ Len(v.str) = 24
    /\ SubSeq(v.str, 1, 8) = "1970-01-" /\ SubSeq(v.str, 24, 24) = "Z"

IsEvents(p) == tool[p] = "query_http_events"

\* The variables of the GraphQL request the invocation sent.
RangeSent(p) == calls[p][1].body.of.fields.variables

\* C13: the tsRange_begin/tsRange_end variables of the query_http_events
\* request are the begin and end passed; an omitted end is the text of the
\* call-time clock reading and an omitted begin the text of that reading
\* minus 5 minutes, so with both omitted end - begin is exactly 5 minutes;
\* and on a conforming 2xx answer the reply opens with
\* "HTTP Events from <begin> to <end>" over those same two values.
EventsRangeEchoed ==
    \A p \in Procs :
        (IsEvents(p) /\ calls[p] # <<>>)
        => /\ DOMAIN RangeSent(p).fields = {"tsRange_begin", "tsRange_end"}
           /\ IF Supplied(p, "begin")
              THEN RangeSent(p).fields.tsRange_begin = args[p].fields.begin
              ELSE /\ IsJanuary1970Text(RangeSent(p).fields.tsRange_begin)
                   /\ InstantOf(RangeSent(p).fields.tsRange_begin.str)
                        = local[p].now - 5 * 60 * 1000
           /\ IF Supplied(p, "end")
              THEN RangeSent(p).fields.tsRange_end = args[p].fields.end
              ELSE /\ IsJanuary1970Text(RangeSent(p).fields.tsRange_end)
                   /\ InstantOf(RangeSent(p).fields.tsRange_end.str) = local[p].now
           /\ (~Supplied(p, "begin") /\ ~Supplied(p, "end"))
              => InstantOf(RangeSent(p).fields.tsRange_end.str)
                 - InstantOf(RangeSent(p).fields.tsRange_begin.str) = 300000
           /\ (Answered(p) /\ LastResp(p).ok /\ Envelope(tool[p], LastResp(p).body))
              => /\ Len(reply[p]) >= 4
                 /\ SubSeq(reply[p], 1, 4)
                      = << Lit("HTTP Events from "), Str(RangeSent(p).fields.tsRange_begin),
                           Lit(" to "), Str(RangeSent(p).fields.tsRange_end) >>

EventsDefaultRangeReached ==
    \E p \in Procs :
        /\ IsEvents(p) /\ args[p] = JObj(NoFields) /\ local[p].now = 86400000
        /\ Answered(p) /\ LastResp(p).ok /\ Envelope(tool[p], LastResp(p).body)
        /\ RangeSent(p).fields.tsRange_begin = JStr("1970-01-01T23:55:00.000Z")
        /\ RangeSent(p).fields.tsRange_end = JStr("1970-01-02T00:00:00.000Z")
        /\ SubSeq(reply[p], 1, 4)
             = << Lit("HTTP Events from "), Str(JStr("1970-01-01T23:55:00.000Z")),
                  Lit(" to "), Str(JStr("1970-01-02T00:00:00.000Z")) >>

CallsOf(p, m) == { i \in DOMAIN calls[p] : calls[p][i].method = m }

\* C16: an invocation of query_http_events, list_network_lists,
\* get_network_list or create_network_list issues at most one upstream call;
\* an invocation of update_network_list at most two, at most one GET and at
\* most one PATCH, the GET (when made) first and answered before the PATCH
\* is sent; no invocation issues the same call twice, whatever the upstream
\* answered.
CallsBoundedAndOrdered ==
    \A p \in Procs :
        /\ \A i, j \in DOMAIN calls[p] : calls[p][i] = calls[p][j] => i = j
        /\ Len(resps[p]) <= Len(calls[p])
        /\ IF IsUpdate(p)
           THEN /\ Len(calls[p]) <= 2
                /\ Methods(p) \subseteq {"GET", "PATCH"}
                /\ Cardinality(CallsOf(p, "GET")) <= 1
                /\ Cardinality(CallsOf(p, "PATCH")) <= 1
                /\ Len(calls[p]) = 2
                   => /\ calls[p][1].method = "GET" /\ calls[p][2].method = "PATCH"
                      /\ Len(resps[p]) >= 1
           ELSE Len(calls[p]) <= 1

\* Both calls of a merge update were answered non-2xx and the invocation
\* ended with the two calls it had issued.
BothCallsFailedReached ==
    \E p \in Procs :
        /\ MergeMode(p) /\ pc[p] = "done"
        /\ Len(calls[p]) = 2 /\ Len(resps[p]) = 2
        /\ calls[p][1].method = "GET" /\ calls[p][2].method = "PATCH"
        /\ ~resps[p][1].ok /\ ~resps[p][2].ok

\* The body holds data.items.
HasDataItems(b) ==
    /\ b.kind = "object" /\ "data" \in DOMAIN b.fields
    /\ b.fields.data.kind = "object" /\ "items" \in DOMAIN b.fields.data.fields

\* The pre-fetch GET was answered non-2xx, or 2xx with an unparseable body or
\* a body lacking data.items.
PrefetchDegraded(p) ==
    /\ MergeMode(p)
    /\ calls[p] # <<>> /\ calls[p][1].method = "GET"
    /\ resps[p] # <<>>
    /\ \/ ~resps[p][1].ok
       \/ resps[p][1].body = Unparseable
       \/ ~HasDataItems(resps[p][1].body)

\* C15: in merge mode, when the pre-fetch GET answers non-2xx, or 2xx with
\* an unparseable body or a body lacking data.items, the invocation does not
\* abort: it sends the PATCH with items equal to newItems exactly, and the
\* reply it returns is the one the PATCH response alone determines.
PrefetchDegradesSilently ==
    \A p \in Procs :
        PrefetchDegraded(p)
        => /\ Len(calls[p]) = 2
           /\ calls[p][2].method = "PATCH"
           /\ PatchItems(p) = NewItems(p)
           /\ pc[p] = "done" => reply[p] = UpdateReply(resps[p][2])

\* The parts of a payload that a reply text renders.
PayloadParts(j) ==
    { Prop(j, "state"), Prop(j, "data"), Prop(j, "count"), Prop(j, "results"),
      Prop(Prop(j, "data"), "id"), Prop(Prop(j, "data"), "httpEvents") } \ {JUndef}

ReplyRendersPayload(p) ==
    \E i \in DOMAIN reply[p] :
        /\ reply[p][i].kind \in {"tostring", "json"}
        /\ reply[p][i].of \in PayloadParts(LastResp(p).body)

\* An item of the pre-fetch GET's payload is among the items of the PATCH body.
PatchCarriesPayload(p) ==
    /\ MergeMode(p) /\ PatchSent(p) /\ GetAnsweredItems(p)
    /\ \E i \in DOMAIN GetItems(p) : IsIn(GetItems(p)[i], PatchItems(p))

\* C14: a 2xx payload of which something reached a request body or a reply
\* conforms to the response shape of its endpoint: the final answer to the
\* tool's envelope, and the pre-fetch GET of update_network_list, whose
\* data.items feeds the merge, to the single-entity envelope {data}.
OnlyValidatedPayloadFlows ==
    \A p \in Procs :
        /\ (Answered(p) /\ LastResp(p).ok /\ ReplyRendersPayload(p))
           => Envelope(tool[p], LastResp(p).body)
        /\ PatchCarriesPayload(p) => Envelope("get_network_list", resps[p][1].body)

OneOf(v, kinds) == v.kind \in kinds

\* The declared inputs of each tool: required fields present, each field of
\* its primitive type, type within the enumerated set.
ConformsToInputs(t, a) ==
    /\ a.kind = "object"
    /\ CASE t = "query_http_events" ->
               /\ OneOf(Prop(a, "begin"), {"string", "undefined"})
               /\ OneOf(Prop(a, "end"), {"string", "undefined"})
         [] t = "list_network_lists" -> TRUE
         [] t = "get_network_list" ->
               /\ OneOf(Prop(a, "networkListId"), {"number"})
               /\ OneOf(Prop(a, "checkIp"), {"string", "undefined"})
         [] t = "update_network_list" ->
               /\ OneOf(Prop(a, "networkListId"), {"number"})
               /\ StringSeq(Prop(a, "newItems"))
               /\ OneOf(Prop(a, "replaceAll"), {"boolean", "undefined"})
         [] t = "create_network_list" ->
               /\ OneOf(Prop(a, "name"), {"string"})
               /\ OneOf(Prop(a, "type"), {"string"})
               /\ Prop(a, "type").str \in {"ip_cidr", "asn", "countries"}
               /\ StringSeq(Prop(a, "items"))
               /\ OneOf(Prop(a, "active"), {"boolean", "undefined"})

====
